---- MODULE Spec2Model ----
(***************************************************************************)
(* Model of src/main.py (PDF text -> chunks -> LLM replies -> rows).       *)
(*                                                                         *)
(* Text is a sequence of one-character strings.  A service reply is a      *)
(* sequence of lexical tokens (see Tokens).  Three specifications:         *)
(*   SpecChunk  chunk_text_block, one loop iteration per step              *)
(*   SpecParse  safe_parse_json, one parsing attempt per step              *)
(*   Spec       process_pdf_to_rows, one page header or one chunk per step *)
(***************************************************************************)
EXTENDS Integers, Sequences, FiniteSets, TLC

VARIABLES
    \* chunk_text_block
    text, max_chars, paragraphs, p_i, chunks, cur, c_pc,
    \* safe_parse_json
    j_mode, wrap_prefix, wrap_list, wrap_suffix, maybe_json_text, p_result, j_pc,
    \* process_pdf_to_rows
    pdf, pages, rows, full_text_backup, page_i, d_chunks, chunk_i, pc, calls, outcomes

chunk_vars == <<text, max_chars, paragraphs, p_i, chunks, cur, c_pc>>
parse_vars == <<j_mode, wrap_prefix, wrap_list, wrap_suffix, maybe_json_text, p_result, j_pc>>
driver_vars == <<pdf, pages, rows, full_text_backup, page_i, d_chunks, chunk_i, pc, calls, outcomes>>
vars == <<chunk_vars, parse_vars, driver_vars>>

----------------------------------------------------------------------------
(* Bounds *)

MaxTextLen == 7
MaxMaxChars == 4
MaxWrapLen == 2
MaxItems == 2
MaxRawLen == 3
MaxPages == 2
\* MAX_CHUNK_CHARS is 1800 in the source (line 13); the driver is run with a
\* limit of a few characters so that a short page yields several chunks.
MAX_CHUNK_CHARS == 2

----------------------------------------------------------------------------
(* Text *)

Chars == {"a", "b", "\n"}
Whitespace == {" ", "\n"}
BlankLine == <<"\n", "\n">>

Min(S) == CHOOSE x \in S : \A y \in S : x <= y
Max(S) == CHOOSE x \in S : \A y \in S : x >= y

SeqsUpTo(S, n) == UNION {[1..k -> S] : k \in 0..n}

\* sep.join(ss)
RECURSIVE Join(_, _)
Join(ss, sep) ==
    IF ss = <<>> THEN <<>>
    ELSE IF Len(ss) = 1 THEN ss[1]
    ELSE ss[1] \o sep \o Join(Tail(ss), sep)

\* str.strip()
Strip(s) ==
    LET keep == {i \in 1..Len(s) : s[i] \notin Whitespace}
    IN  IF keep = {} THEN <<>> ELSE SubSeq(s, Min(keep), Max(keep))

\* str.split("\n\n"): separators are matched left to right, never overlapping
RECURSIVE SplitFrom(_, _, _)
SplitFrom(s, i, piece) ==
    IF i > Len(s) THEN <<piece>>
    ELSE IF i < Len(s) /\ s[i] = "\n" /\ s[i+1] = "\n"
         THEN <<piece>> \o SplitFrom(s, i + 2, <<>>)
         ELSE SplitFrom(s, i + 1, Append(piece, s[i]))

Split(s) == SplitFrom(s, 1, <<>>)

\* [p.strip() for p in text.split("\n\n") if p.strip()]
Paragraphs(t) ==
    LET parts == Split(t)
        stripped == [i \in 1..Len(parts) |-> Strip(parts[i])]
    IN  SelectSeq(stripped, LAMBDA p : p # <<>>)

\* [p[i:i+max] for i in range(0, len(p), max)]
Slices(p, max) ==
    LET n == (Len(p) + max - 1) \div max
    IN  [k \in 1..n |-> SubSeq(p, (k - 1) * max + 1, Min({k * max, Len(p)}))]

\* the packing step with the separator's two characters left out of the test
PackStepNoSep(st, p, max) ==
    IF Len(st.cur) + Len(p) <= max
    THEN [chunks |-> st.chunks, cur |-> Strip(st.cur \o BlankLine \o p)]
    ELSE LET flushed == IF st.cur # <<>> THEN Append(st.chunks, st.cur) ELSE st.chunks
         IN  IF Len(p) <= max
             THEN [chunks |-> flushed, cur |-> p]
             ELSE [chunks |-> flushed \o Slices(p, max), cur |-> <<>>]

\* the packing step that starts a new buffer without flushing the old one
PackStepNoFlush(st, p, max) ==
    IF Len(st.cur) + Len(p) + 2 <= max
    THEN [chunks |-> st.chunks, cur |-> Strip(st.cur \o BlankLine \o p)]
    ELSE IF Len(p) <= max
         THEN [chunks |-> st.chunks, cur |-> p]
         ELSE [chunks |-> st.chunks \o Slices(p, max), cur |-> <<>>]

\* one iteration of "for p in paragraphs" on (chunks, cur)
PackStep(st, p, max) ==
    IF Len(st.cur) + Len(p) + 2 <= max
    THEN [chunks |-> st.chunks, cur |-> Strip(st.cur \o BlankLine \o p)]
    ELSE LET flushed == IF st.cur # <<>> THEN Append(st.chunks, st.cur) ELSE st.chunks
         IN  IF Len(p) <= max
             THEN [chunks |-> flushed, cur |-> p]
             ELSE [chunks |-> flushed \o Slices(p, max), cur |-> <<>>]

\* "if cur: chunks.append(cur)" after the loop
FinalFlush(st) == IF st.cur # <<>> THEN Append(st.chunks, st.cur) ELSE st.chunks

RECURSIVE PackAll(_, _, _, _)
PackAll(st, ps, i, max) ==
    IF i > Len(ps) THEN st ELSE PackAll(PackStep(st, ps[i], max), ps, i + 1, max)

chunk_text_block(t, max) ==
    FinalFlush(PackAll([chunks |-> <<>>, cur |-> <<>>], Paragraphs(t), 1, max))

----------------------------------------------------------------------------
(* JSON text and values *)

\* A reply is a sequence of tokens.  "o1", "o2": item objects with key,
\* value and comments; "e": the empty object {}; "5": a number; "{items:"
\* stands for the opening of an object up to its "items" member's colon;
\* "w": a word of prose, not JSON.
WellFormedItems == {"o1", "o2"}
ObjectTokens == WellFormedItems \cup {"e"}
Tokens == {"[", "]", ",", "{items:", "}", "5", "w"} \cup ObjectTokens
WrapTokens == {"[", "]", "{items:", "}", "w"}

\* Python values; every value has the same three fields
Num == [t |-> "num", v |-> <<>>, id |-> "5"]
Dict(id) == [t |-> "dict", v |-> <<>>, id |-> id]
List(vs) == [t |-> "list", v |-> vs, id |-> ""]
ItemsObj(val) == [t |-> "dict", v |-> <<val>>, id |-> "items"]
Str(s) == [t |-> "str", v |-> <<>>, id |-> s]

HasItems(val) == val.t = "dict" /\ val.id = "items"

NoParse == [ok |-> FALSE, val |-> Num, next |-> 0]

\* json.loads on tokens: one value starting at toks[i]
RECURSIVE ParseValue(_, _)
RECURSIVE ParseElems(_, _, _)
ParseValue(toks, i) ==
    IF i > Len(toks) THEN NoParse
    ELSE IF toks[i] = "5" THEN [ok |-> TRUE, val |-> Num, next |-> i + 1]
    ELSE IF toks[i] \in ObjectTokens
         THEN [ok |-> TRUE, val |-> Dict(toks[i]), next |-> i + 1]
    ELSE IF toks[i] = "["
         THEN IF i + 1 <= Len(toks) /\ toks[i + 1] = "]"
              THEN [ok |-> TRUE, val |-> List(<<>>), next |-> i + 2]
              ELSE ParseElems(toks, i + 1, <<>>)
    ELSE IF toks[i] = "{items:"
         THEN LET r == ParseValue(toks, i + 1)
              IN  IF r.ok /\ r.next <= Len(toks) /\ toks[r.next] = "}"
                  THEN [ok |-> TRUE, val |-> ItemsObj(r.val), next |-> r.next + 1]
                  ELSE NoParse
    ELSE NoParse

ParseElems(toks, i, acc) ==
    LET r == ParseValue(toks, i)
    IN  IF ~r.ok \/ r.next > Len(toks) THEN NoParse
        ELSE IF toks[r.next] = ","
             THEN ParseElems(toks, r.next + 1, Append(acc, r.val))
        ELSE IF toks[r.next] = "]"
             THEN [ok |-> TRUE, val |-> List(Append(acc, r.val)), next |-> r.next + 1]
        ELSE NoParse

\* json.loads: the whole text must be one value
json_loads(toks) ==
    LET r == ParseValue(toks, 1)
    IN  IF r.ok /\ r.next = Len(toks) + 1 THEN r ELSE NoParse

\* json.dumps of a list of item objects
RECURSIVE Commas(_)
Commas(ids) ==
    IF ids = <<>> THEN <<>>
    ELSE IF Len(ids) = 1 THEN <<ids[1]>>
    ELSE <<ids[1], ",">> \o Commas(Tail(ids))

json_dumps(ids) == <<"[">> \o Commas(ids) \o <<"]">>

----------------------------------------------------------------------------
(* safe_parse_json *)

VALUE_ERROR_EXCERPT == 500

Take(s, n) == SubSeq(s, 1, Min({n, Len(s)}))

NoResult == [kind |-> "none", val |-> Num, exc |-> "", msg |-> <<>>]
Returned(val) == [kind |-> "return", val |-> val, exc |-> "", msg |-> <<>>]
Raised(exc, msg) == [kind |-> "raise", val |-> Num, exc |-> exc, msg |-> msg]

\* lines 43-50: a list is returned, an object's "items" is returned, anything
\* else (a parse error included) falls through
DirectResult(raw) ==
    LET r == json_loads(raw)
    IN  IF r.ok /\ r.val.t = "list" THEN Returned(r.val)
        ELSE IF r.ok /\ HasItems(r.val) THEN Returned(r.val.v[1])
        ELSE NoResult

\* str.find('[') and str.rfind(']'), 1-based, 0 when absent
FindFirst(raw, tok) ==
    LET at == {i \in 1..Len(raw) : raw[i] = tok} IN IF at = {} THEN 0 ELSE Min(at)
FindLast(raw, tok) ==
    LET at == {i \in 1..Len(raw) : raw[i] = tok} IN IF at = {} THEN 0 ELSE Max(at)

BracketFound(raw) ==
    /\ FindFirst(raw, "[") # 0
    /\ FindLast(raw, "]") # 0
    /\ FindLast(raw, "]") > FindFirst(raw, "[")

\* the slice that stops before the closing bracket
BracketTextExclusive(raw) == SubSeq(raw, FindFirst(raw, "["), FindLast(raw, "]") - 1)

\* maybe_json_text[start:end+1]
BracketText(raw) == SubSeq(raw, FindFirst(raw, "["), FindLast(raw, "]"))

\* no bracketed text: an empty list instead of the error
NoMatchEmpty(raw) == Returned(List(<<>>))

\* line 57
NoMatchResult(raw) == Raised("ValueError", Take(raw, VALUE_ERROR_EXCERPT))

\* lines 52-57: json.loads of the bracketed text, its error not caught
BracketResult(raw) ==
    IF BracketFound(raw)
    THEN LET r == json_loads(BracketText(raw))
         IN  IF r.ok THEN Returned(r.val) ELSE Raised("JSONDecodeError", <<>>)
    ELSE NoMatchResult(raw)

safe_parse_json(raw) ==
    LET direct == DirectResult(raw)
    IN  IF direct.kind = "return" THEN direct ELSE BracketResult(raw)

----------------------------------------------------------------------------
(* chunk_text_block, step by step *)

ChunkIdle ==
    /\ text = <<>> /\ max_chars = 1 /\ paragraphs = <<>> /\ p_i = 1
    /\ chunks = <<>> /\ cur = <<>> /\ c_pc = "idle"

ParseIdle ==
    /\ j_mode = "idle" /\ wrap_prefix = <<>> /\ wrap_list = <<>> /\ wrap_suffix = <<>>
    /\ maybe_json_text = <<>> /\ p_result = NoResult /\ j_pc = "idle"

DriverIdle ==
    /\ pdf = <<>> /\ pages = <<>> /\ rows = <<>> /\ full_text_backup = <<>> /\ page_i = 1
    /\ d_chunks = <<>> /\ chunk_i = 1 /\ pc = "idle" /\ calls = <<>> /\ outcomes = <<>>

ChunkInit ==
    /\ text \in SeqsUpTo(Chars, MaxTextLen)
    /\ max_chars \in 1..MaxMaxChars
    /\ paragraphs = <<>> /\ p_i = 1 /\ chunks = <<>> /\ cur = <<>>
    /\ c_pc = "split"
    /\ ParseIdle /\ DriverIdle

\* line 26-27
ChunkSplit ==
    /\ c_pc = "split"
    /\ paragraphs' = Paragraphs(text)
    /\ p_i' = 1 /\ chunks' = <<>> /\ cur' = <<>>
    /\ c_pc' = "loop"
    /\ UNCHANGED <<text, max_chars, parse_vars, driver_vars>>

\* lines 28-38, one paragraph
ChunkPack ==
    /\ c_pc = "loop" /\ p_i <= Len(paragraphs)
    /\ LET st == PackStep([chunks |-> chunks, cur |-> cur], paragraphs[p_i], max_chars)
       IN  chunks' = st.chunks /\ cur' = st.cur
    /\ p_i' = p_i + 1
    /\ UNCHANGED <<text, max_chars, paragraphs, c_pc, parse_vars, driver_vars>>

\* lines 39-40
ChunkReturn ==
    /\ c_pc = "loop" /\ p_i > Len(paragraphs)
    /\ chunks' = FinalFlush([chunks |-> chunks, cur |-> cur])
    /\ c_pc' = "done"
    /\ UNCHANGED <<text, max_chars, paragraphs, p_i, cur, parse_vars, driver_vars>>

ChunkNext == ChunkSplit \/ ChunkPack \/ ChunkReturn

SpecChunk == ChunkInit /\ [][ChunkNext]_vars

----------------------------------------------------------------------------
(* process_pdf_to_rows *)

BAD_JSON_EXCERPT == 800

\* page.extract_text() of each page of the document: a text, or None
PageTexts == {<<>>, <<"\n">>, <<"a">>, <<"a", "\n", "\n", "b">>}
ExtractResults ==
    {[none |-> TRUE, text |-> <<>>]} \cup {[none |-> FALSE, text |-> t] : t \in PageTexts}

\* what the service does for one call: raise with a message, or reply
Errors == {"timeout"}
Replies ==
    { <<>>,
      <<"w">>,
      <<"[", "]">>,
      <<"[", "o1", ",", "5", ",", "e", "]">>,
      <<"w", "[", "o2", "]", "w">>,
      <<"[", "w", "]">>,
      <<"{items:", "[", "o1", "]", "}">>,
      <<"{items:", "5", "}">> }
ServiceResults ==
    {[kind |-> "raise", e |-> e, raw |-> <<>>] : e \in Errors}
        \cup {[kind |-> "text", e |-> "", raw |-> r] : r \in Replies}

\* enumerate(pdf.pages) counting from 0
PageNumberFromZero(i) == i - 1

\* enumerate(pdf.pages, start=1)
PageNumber(i) == i

\* lines 17-23
extract_pdf_text(doc) ==
    [i \in 1..Len(doc) |->
        [page |-> PageNumber(i),
         text |-> IF doc[i].none THEN <<>> ELSE doc[i].text]]

\* line 104
Prompt(chunk) == <<"PROMPT_TEMPLATE Chunk:">> \o chunk

UNSTRUCTURED == <<"__UNSTRUCTURED__">>

Row(key, value, comments, page_num) ==
    [Key |-> key, Value |-> value, Comments |-> comments, Source_Page |-> page_num]

\* line 100
EmptyPageRow(page_num) == Row(UNSTRUCTURED, <<>>, <<"Empty page">>, page_num)

\* line 87, then lines 109-114
ModelErrorRow(chunk, e, page_num) ==
    Row(UNSTRUCTURED, chunk, <<"Model error: ", "GenAI call failed: ", e>>, page_num)

\* the sentinel row without the chunk's text
BadJsonRowNoChunk(chunk, raw_out, page_num) ==
    Row(UNSTRUCTURED, <<>>, <<"Bad JSON output.\n">> \o Take(raw_out, BAD_JSON_EXCERPT), page_num)

\* lines 121-126
BadJsonRow(chunk, raw_out, page_num) ==
    Row(UNSTRUCTURED, chunk, <<"Bad JSON output.\n">> \o Take(raw_out, BAD_JSON_EXCERPT), page_num)

\* the members of the objects the tokens stand for
ItemMembers(id) == IF id \in WellFormedItems THEN <<"key", "value", "comments">>
                   ELSE IF id = "items" THEN <<"items">> ELSE <<>>
ItemMember(id, name) == <<name, id>>

\* it.get(name, "")
DictGet(it, name) ==
    IF \E k \in 1..Len(ItemMembers(it.id)) : ItemMembers(it.id)[k] = name
    THEN ItemMember(it.id, name) ELSE <<>>

\* str(it)
RECURSIVE PyStr(_)
PyStr(it) ==
    IF it.t = "list"
    THEN <<"[">> \o Join([k \in 1..Len(it.v) |-> PyStr(it.v[k])], <<", ">>) \o <<"]">>
    ELSE <<it.id>>

\* whether "for it in items" can start, and what it yields
Iterable(items) == items.t \in {"list", "dict"}
Elements(items) ==
    IF items.t = "list" THEN items.v
    ELSE [k \in 1..Len(ItemMembers(items.id)) |-> Str(ItemMembers(items.id)[k])]

\* lines 131-140, one element
ItemRow(it, page_num) ==
    IF it.t # "dict"
    THEN Row(UNSTRUCTURED, PyStr(it), <<"Invalid item">>, page_num)
    ELSE Row(DictGet(it, "key"), DictGet(it, "value"), DictGet(it, "comments"), page_num)

\* the loop leaving at the first element that is not a dict
ItemRowsUntilInvalid(items, page_num) ==
    LET els == Elements(items)
        bad == {k \in 1..Len(els) : els[k].t # "dict"}
        n   == IF bad = {} THEN Len(els) ELSE Min(bad)
    IN  [k \in 1..n |-> ItemRow(els[k], page_num)]

\* lines 130-140
ItemRows(items, page_num) ==
    [k \in 1..Len(Elements(items)) |-> ItemRow(Elements(items)[k], page_num)]

\* the position that leaves the chunk loop one chunk early
NextPositionEarly(pi, ci, n) ==
    IF ci + 1 < n THEN [page_i |-> pi, chunk_i |-> ci + 1, pc |-> "chunk"]
    ELSE [page_i |-> pi + 1, chunk_i |-> 1, pc |-> "page"]

\* "continue" / end of the body of "for chunk in chunks": the next chunk, or
\* the next page after the last one
NextPosition(pi, ci, n) ==
    IF ci < n THEN [page_i |-> pi, chunk_i |-> ci + 1, pc |-> "chunk"]
    ELSE [page_i |-> pi + 1, chunk_i |-> 1, pc |-> "page"]

Outcome(kind, svc, first, last) ==
    [kind |-> kind, page |-> pages[page_i].page, chunk |-> d_chunks[chunk_i],
     svc |-> svc, first |-> first, last |-> last]

Init ==
    /\ pdf \in SeqsUpTo(ExtractResults, MaxPages)
    /\ pages = extract_pdf_text(pdf)
    /\ rows = <<>> /\ full_text_backup = <<>>
    /\ page_i = 1 /\ d_chunks = <<>> /\ chunk_i = 1
    /\ pc = "page" /\ calls = <<>> /\ outcomes = <<>>
    /\ ChunkIdle /\ ParseIdle

BackupEntry(page) == [page |-> page.page, text |-> page.text]

\* lines 93-101: a page without chunks
EmptyPage ==
    /\ pc = "page" /\ page_i <= Len(pages)
    /\ chunk_text_block(pages[page_i].text, MAX_CHUNK_CHARS) = <<>>
    /\ full_text_backup' = Append(full_text_backup, BackupEntry(pages[page_i]))
    /\ rows' = Append(rows, EmptyPageRow(pages[page_i].page))
    /\ d_chunks' = <<>> /\ chunk_i' = 1
    /\ page_i' = page_i + 1
    /\ UNCHANGED <<pdf, pages, pc, calls, outcomes, chunk_vars, parse_vars>>

\* lines 93-99, 103: a page with chunks
StartPage ==
    /\ pc = "page" /\ page_i <= Len(pages)
    /\ chunk_text_block(pages[page_i].text, MAX_CHUNK_CHARS) # <<>>
    /\ full_text_backup' = Append(full_text_backup, BackupEntry(pages[page_i]))
    /\ d_chunks' = chunk_text_block(pages[page_i].text, MAX_CHUNK_CHARS)
    /\ chunk_i' = 1
    /\ pc' = "chunk"
    /\ UNCHANGED <<pdf, pages, rows, page_i, calls, outcomes, chunk_vars, parse_vars>>

Advance ==
    LET nxt == NextPosition(page_i, chunk_i, Len(d_chunks))
    IN  page_i' = nxt.page_i /\ chunk_i' = nxt.chunk_i /\ pc' = nxt.pc

Called == calls' = Append(calls, [page |-> pages[page_i].page, prompt |-> Prompt(d_chunks[chunk_i])])

\* lines 104-116: the call raises
ChunkCallFails ==
    /\ pc = "chunk"
    /\ \E svc \in ServiceResults :
        /\ svc.kind = "raise"
        /\ Called
        /\ rows' = Append(rows, ModelErrorRow(d_chunks[chunk_i], svc.e, pages[page_i].page))
        /\ outcomes' = Append(outcomes,
               Outcome("SERVICE_FAILED", svc, Len(rows) + 1, Len(rows) + 1))
    /\ Advance
    /\ UNCHANGED <<pdf, pages, full_text_backup, d_chunks, chunk_vars, parse_vars>>

\* lines 104-107, 118-128: safe_parse_json raises
ChunkParseFails ==
    /\ pc = "chunk"
    /\ \E svc \in ServiceResults :
        /\ svc.kind = "text"
        /\ safe_parse_json(svc.raw).kind = "raise"
        /\ Called
        /\ rows' = Append(rows, BadJsonRow(d_chunks[chunk_i], svc.raw, pages[page_i].page))
        /\ outcomes' = Append(outcomes,
               Outcome("PARSE_FAILED", svc, Len(rows) + 1, Len(rows) + 1))
    /\ Advance
    /\ UNCHANGED <<pdf, pages, full_text_backup, d_chunks, chunk_vars, parse_vars>>

\* lines 104-107, 118-119, 130-142: the items are iterated
ChunkSuccess ==
    /\ pc = "chunk"
    /\ \E svc \in ServiceResults :
        /\ svc.kind = "text"
        /\ safe_parse_json(svc.raw).kind = "return"
        /\ Iterable(safe_parse_json(svc.raw).val)
        /\ Called
        /\ LET new == ItemRows(safe_parse_json(svc.raw).val, pages[page_i].page)
           IN  /\ rows' = rows \o new
               /\ outcomes' = Append(outcomes,
                      Outcome("SUCCESS", svc, Len(rows) + 1, Len(rows) + Len(new)))
    /\ Advance
    /\ UNCHANGED <<pdf, pages, full_text_backup, d_chunks, chunk_vars, parse_vars>>

\* lines 104-107, 118-119, 130: "for it in items" on a value that is not
\* iterable raises TypeError outside every try block
ChunkRaises ==
    /\ pc = "chunk"
    /\ \E svc \in ServiceResults :
        /\ svc.kind = "text"
        /\ safe_parse_json(svc.raw).kind = "return"
        /\ ~Iterable(safe_parse_json(svc.raw).val)
        /\ Called
        /\ outcomes' = Append(outcomes, Outcome("SUCCESS", svc, Len(rows) + 1, Len(rows)))
    /\ pc' = "raised"
    /\ UNCHANGED <<pdf, pages, rows, full_text_backup, page_i, d_chunks, chunk_i,
                   chunk_vars, parse_vars>>

\* line 144
Return ==
    /\ pc = "page" /\ page_i > Len(pages)
    /\ pc' = "done"
    /\ UNCHANGED <<pdf, pages, rows, full_text_backup, page_i, d_chunks, chunk_i,
                   calls, outcomes, chunk_vars, parse_vars>>

Next ==
    \/ EmptyPage \/ StartPage
    \/ ChunkCallFails \/ ChunkParseFails \/ ChunkSuccess \/ ChunkRaises
    \/ Return

Spec == Init /\ [][Next]_vars

----------------------------------------------------------------------------
(* Chunker properties *)

Strips(ss) == [i \in 1..Len(ss) |-> Strip(ss[i])]

\* C3: every chunk stored so far, and the running buffer, is at most
\* max_chars long, at every step of the packing loop and at return.
C3_ChunkSizeBound ==
    c_pc \in {"loop", "done"} =>
        /\ \A k \in 1..Len(chunks) : Len(chunks[k]) <= max_chars
        /\ Len(cur) <= max_chars

C3_Witness ==
    /\ c_pc = "done"
    /\ Len(chunks) >= 3
    /\ \E k \in 1..Len(chunks) : Len(chunks[k]) = max_chars
    /\ \E k \in 1..Len(paragraphs) : Len(paragraphs[k]) > max_chars
    /\ \E k \in 1..Len(paragraphs) : Len(paragraphs[k]) < max_chars

\* C4 as stated: the stripped chunks joined by blank lines are the
\* paragraphs joined by blank lines, for every input.
C4_Original ==
    c_pc = "done" =>
        Join(Strips(chunks), BlankLine) = Join(Paragraphs(text), BlankLine)

NoLongParagraph == \A k \in 1..Len(Paragraphs(text)) : Len(Paragraphs(text)[k]) <= max_chars

\* the pieces of every chunk between packing separators, in order
Pieces(cs) == Join([k \in 1..Len(cs) |-> Join(Split(cs[k]), <<>>)], <<>>)

\* C4 amended: when no paragraph is longer than max_chars the stripped chunks
\* joined by blank lines are the paragraphs joined by blank lines; in every
\* case the chunks' characters, packing separators removed, are the
\* paragraphs' characters in order (a long paragraph is cut, not rejoined).
C4_Completeness ==
    c_pc = "done" =>
        /\ NoLongParagraph =>
               Join(Strips(chunks), BlankLine) = Join(Paragraphs(text), BlankLine)
        /\ Pieces(chunks) = Join(Paragraphs(text), <<>>)

C4_Witness ==
    /\ c_pc = "done"
    /\ NoLongParagraph
    /\ Len(Paragraphs(text)) >= 3
    /\ Len(chunks) = 2
    /\ Paragraphs(text)[1] # Paragraphs(text)[2]

----------------------------------------------------------------------------
(* safe_parse_json, step by step *)

\* a serialized list of well-formed items between a prefix and a suffix
ParseInitWrapped ==
    /\ j_mode = "wrapped"
    /\ wrap_prefix \in SeqsUpTo(WrapTokens, MaxWrapLen)
    /\ wrap_suffix \in SeqsUpTo(WrapTokens, MaxWrapLen)
    /\ wrap_list \in SeqsUpTo(WellFormedItems, MaxItems)
    /\ maybe_json_text = wrap_prefix \o json_dumps(wrap_list) \o wrap_suffix

\* any reply
ParseInitFree ==
    /\ j_mode = "free"
    /\ wrap_prefix = <<>> /\ wrap_suffix = <<>> /\ wrap_list = <<>>
    /\ maybe_json_text \in SeqsUpTo(Tokens, MaxRawLen)

ParseInit ==
    /\ ParseInitWrapped \/ ParseInitFree
    /\ p_result = NoResult /\ j_pc = "direct"
    /\ ChunkIdle /\ DriverIdle

\* lines 43-48, returning
ParseDirectReturns ==
    /\ j_pc = "direct"
    /\ DirectResult(maybe_json_text).kind = "return"
    /\ p_result' = DirectResult(maybe_json_text)
    /\ j_pc' = "done"
    /\ UNCHANGED <<j_mode, wrap_prefix, wrap_list, wrap_suffix, maybe_json_text,
                   chunk_vars, driver_vars>>

\* lines 43-50, falling through to line 52
ParseDirectFalls ==
    /\ j_pc = "direct"
    /\ DirectResult(maybe_json_text).kind # "return"
    /\ j_pc' = "bracket"
    /\ UNCHANGED <<j_mode, wrap_prefix, wrap_list, wrap_suffix, maybe_json_text, p_result,
                   chunk_vars, driver_vars>>

\* lines 52-57
ParseBracket ==
    /\ j_pc = "bracket"
    /\ p_result' = BracketResult(maybe_json_text)
    /\ j_pc' = "done"
    /\ UNCHANGED <<j_mode, wrap_prefix, wrap_list, wrap_suffix, maybe_json_text,
                   chunk_vars, driver_vars>>

ParseNext == ParseDirectReturns \/ ParseDirectFalls \/ ParseBracket

SpecParse == ParseInit /\ [][ParseNext]_vars

----------------------------------------------------------------------------
(* Parser properties *)

Has(s, tok) == \E i \in 1..Len(s) : s[i] = tok

ExpectedList(ids) == List([i \in 1..Len(ids) |-> Dict(ids[i])])

\* C5 as stated: whatever the prefix and the suffix, the list comes back.
C5_Original ==
    (j_mode = "wrapped" /\ j_pc = "done") => p_result = Returned(ExpectedList(wrap_list))

\* the wrapped text is itself an object whose "items" is not the list
WholeIsOtherItems ==
    /\ json_loads(maybe_json_text).ok
    /\ HasItems(json_loads(maybe_json_text).val)
    /\ json_loads(maybe_json_text).val.v[1] # ExpectedList(wrap_list)

\* C5 amended: when the prefix holds no '[', the suffix holds no ']' and the
\* wrapped text is not as a whole a JSON object whose "items" is something
\* other than the list, safe_parse_json returns the list: all items,
\* unchanged, in order.
C5_RoundTrip ==
    (/\ j_mode = "wrapped" /\ j_pc = "done"
     /\ ~Has(wrap_prefix, "[") /\ ~Has(wrap_suffix, "]")
     /\ ~WholeIsOtherItems)
        => p_result = Returned(ExpectedList(wrap_list))

C5_Witness ==
    /\ j_mode = "wrapped" /\ j_pc = "done"
    /\ ~Has(wrap_prefix, "[") /\ ~Has(wrap_suffix, "]")
    /\ ~WholeIsOtherItems
    /\ Len(wrap_list) = 2 /\ wrap_list[1] # wrap_list[2]
    /\ Has(wrap_prefix, "]") /\ Has(wrap_suffix, "[")
    /\ p_result.kind = "return"

\* C6: a reply that json.loads rejects and that has no '[' with a ']' after
\* it makes safe_parse_json raise its ValueError; nothing is returned.
C6_ParseError ==
    (/\ j_pc = "done"
     /\ ~json_loads(maybe_json_text).ok
     /\ ~\E i, j \in 1..Len(maybe_json_text) :
            i < j /\ maybe_json_text[i] = "[" /\ maybe_json_text[j] = "]")
        => p_result.kind = "raise" /\ p_result.exc = "ValueError"

C6_Witness ==
    /\ j_pc = "done"
    /\ ~json_loads(maybe_json_text).ok
    /\ Has(maybe_json_text, "[") /\ Has(maybe_json_text, "]")
    /\ FindLast(maybe_json_text, "]") < FindFirst(maybe_json_text, "[")
    /\ p_result.kind = "raise" /\ p_result.exc = "ValueError"

----------------------------------------------------------------------------
(* Driver properties *)

Contains(s, x) == \E i \in 1..Len(s) : s[i] = x

\* every chunk of every page, in page order then chunk order
RECURSIVE AllChunks(_, _)
AllChunks(ps, i) ==
    IF i > Len(ps) THEN <<>>
    ELSE LET cs == chunk_text_block(ps[i], MAX_CHUNK_CHARS)
         IN  [k \in 1..Len(cs) |-> [page |-> i, chunk |-> cs[k]]] \o AllChunks(ps, i + 1)

DocTexts == [i \in 1..Len(pdf) |-> IF pdf[i].none THEN <<>> ELSE pdf[i].text]

RowsOfPage(o) == {i \in o.first..o.last : rows[i].Source_Page = o.page}

\* C1 as stated: every chunk that the run has finished with has at least
\* one row carrying its page number, and a finished run has at least as many
\* rows as chunks.
C1_NoDataLoss ==
    pc # "raised" =>
        /\ \A k \in 1..Len(outcomes) : RowsOfPage(outcomes[k]) # {}
        /\ pc = "done" => Len(rows) >= Len(AllChunks(DocTexts, 1))

\* C2 as stated: no reply of the service makes the run end in an exception.
C2_NeverRaises == pc # "raised"

CallRaised(o) == o.svc.kind = "raise"
ParseRejected(o) == o.svc.kind = "text" /\ safe_parse_json(o.svc.raw).kind = "raise"

ChunkStep == Len(outcomes') = Len(outcomes) + 1
Latest == outcomes'[Len(outcomes')]

\* C7: a step on a chunk whose call raises, or whose reply safe_parse_json
\* rejects, appends exactly one row to the rows there were: the sentinel key,
\* the chunk's text, the chunk's page, and comments holding the error message
\* or the first BAD_JSON_EXCERPT characters of the raw reply; a chunk that is not the last of its page is
\* followed by the next chunk of the same page.
C7_FailureRow ==
    [][(ChunkStep /\ (CallRaised(Latest) \/ ParseRejected(Latest))) =>
        /\ Latest.page = page_i /\ Latest.chunk = d_chunks[chunk_i]
        /\ Len(rows') = Len(rows) + 1
        /\ SubSeq(rows', 1, Len(rows)) = rows
        /\ rows'[Len(rows')].Key = <<"__UNSTRUCTURED__">>
        /\ rows'[Len(rows')].Value = d_chunks[chunk_i]
        /\ rows'[Len(rows')].Source_Page = page_i
        /\ CallRaised(Latest) => Contains(rows'[Len(rows')].Comments, Latest.svc.e)
        /\ ParseRejected(Latest) =>
               SubSeq(rows'[Len(rows')].Comments, 2, Len(rows'[Len(rows')].Comments))
                   = SubSeq(Latest.svc.raw, 1, Min({Len(Latest.svc.raw), BAD_JSON_EXCERPT}))
        /\ pc' # "raised"
        /\ chunk_i < Len(d_chunks) =>
               /\ pc' = "chunk" /\ page_i' = page_i /\ chunk_i' = chunk_i + 1
               /\ d_chunks' = d_chunks
    ]_vars

C7_Witness ==
    /\ Len(outcomes) >= 3
    /\ CallRaised(outcomes[1])
    /\ ParseRejected(outcomes[2]) /\ outcomes[2].page = outcomes[1].page
    /\ safe_parse_json(outcomes[2].svc.raw).exc = "JSONDecodeError"
    /\ ParseRejected(outcomes[3]) /\ outcomes[3].page # outcomes[1].page
    /\ safe_parse_json(outcomes[3].svc.raw).exc = "ValueError"
    /\ Len(rows) = 3

Blank(t) == \A i \in 1..Len(t) : t[i] \in Whitespace

\* C8: from the top of the page loop, a page whose text is empty, absent or
\* only whitespace gets exactly one row, the sentinel key with an empty value,
\* the comments 'Empty page' and the page's number; no call is made and the
\* loop is at the next page.
C8_EmptyPage ==
    [][(pc = "page" /\ page_i <= Len(pdf) /\ Blank(DocTexts[page_i])) =>
        /\ rows' = Append(rows, [Key |-> <<"__UNSTRUCTURED__">>, Value |-> <<>>,
                                 Comments |-> <<"Empty page">>, Source_Page |-> page_i])
        /\ calls' = calls /\ outcomes' = outcomes
        /\ pc' = "page" /\ page_i' = page_i + 1
    ]_vars

C8_Witness ==
    /\ pc = "done" /\ Len(pdf) = 2
    /\ ~Blank(DocTexts[1])
    /\ Blank(DocTexts[2]) /\ DocTexts[2] # <<>>
    /\ Len(calls) > 0
    /\ rows[Len(rows)].Comments = <<"Empty page">> /\ rows[Len(rows)].Source_Page = 2

Terminal == {"SUCCESS", "SERVICE_FAILED", "PARSE_FAILED"}

ParsedList(o) ==
    /\ o.svc.kind = "text"
    /\ LET res == safe_parse_json(o.svc.raw)
       IN  res.kind = "return" /\ res.val.t = "list"

\* the projection (key, value, comments) of a dict element; a member the
\* object does not have gives the empty string
ExpectedProjection(el, page_num) ==
    [Key |-> IF el.id \in WellFormedItems THEN <<"key", el.id>> ELSE <<>>,
     Value |-> IF el.id \in WellFormedItems THEN <<"value", el.id>> ELSE <<>>,
     Comments |-> IF el.id \in WellFormedItems THEN <<"comments", el.id>> ELSE <<>>,
     Source_Page |-> page_num]

\* C10: a chunk whose reply parses to a list of k elements has exactly k
\* rows, in element order, all with the chunk's page: the projection of a
\* dict element, the sentinel 'Invalid item' row for any other element.
C10_RowsPerElement ==
    \A n \in 1..Len(outcomes) :
        ParsedList(outcomes[n]) =>
            LET o == outcomes[n]
                els == safe_parse_json(o.svc.raw).val.v
            IN  /\ o.last - o.first + 1 = Len(els)
                /\ o.last <= Len(rows)
                /\ \A i \in 1..Len(els) :
                       LET r == rows[o.first + i - 1]
                       IN  /\ r.Source_Page = o.page
                           /\ IF els[i].t = "dict"
                              THEN r = ExpectedProjection(els[i], o.page)
                              ELSE /\ r.Key = <<"__UNSTRUCTURED__">>
                                   /\ r.Comments = <<"Invalid item">>

C10_Witness ==
    /\ pc = "done"
    /\ \E n \in 1..Len(outcomes) :
        /\ ParsedList(outcomes[n])
        /\ outcomes[n].first > 1 /\ outcomes[n].last < Len(rows)
        /\ outcomes[n].last = outcomes[n].first + 2
        /\ rows[outcomes[n].first].Key = <<"key", "o1">>
        /\ rows[outcomes[n].first + 1].Comments = <<"Invalid item">>
        /\ rows[outcomes[n].first + 2].Key = <<>>

====
